---- MODULE Spec2Model ----
(***************************************************************************)
(* The message-exchange pipeline of web-chat-openai: the send handler       *)
(* (server/src/handlers/send_message.ts), the input schema                  *)
(* (server/src/schema.ts), the messages table (server/src/db/schema.ts)     *)
(* and the history read path (getRecentMessages).                           *)
(*                                                                          *)
(* A text is a sequence of segments [s |-> literal, n |-> repetitions]:     *)
(* the string made of n copies of s.  A 1000-character content is one       *)
(* segment, so the schema's limits keep their real values.                  *)
(***************************************************************************)
EXTENDS Integers, Sequences, FiniteSets, TLC

\* ---------------------------------------------------------------- bounds
MaxCalls == 1      \* send invocations, which may run concurrently
MaxClock == 2      \* values the database clock takes: 0..MaxClock
MaxLimit == 3      \* explicit limits handed to getRecentMessages: 0..MaxLimit
MaxSenders == 2    \* sendMessage invocations running at the same time
MaxInserts == 3    \* rows a test inserts directly into the table

\* ------------------------------------------------------ program constants
MinContentLength == 1
MaxContentLength == 1000
DefaultLimit == 50

Calls == 1..MaxCalls

\* ------------------------------------------------------------------ texts
Seg(s, n) == [s |-> s, n |-> n]
Lit(s) == <<Seg(s, 1)>>
EmptyText == <<>>

RECURSIVE TextLen(_)
TextLen(t) == IF t = <<>> THEN 0 ELSE Len(Head(t).s) * Head(t).n + TextLen(Tail(t))

IsWhitespace(seg) == seg.s = " " \/ seg.n = 0

RECURSIVE TrimStart(_)
TrimStart(t) ==
  IF t = <<>> THEN <<>>
  ELSE IF IsWhitespace(Head(t)) THEN TrimStart(Tail(t)) ELSE t

RECURSIVE TrimEnd(_)
TrimEnd(t) ==
  IF t = <<>> THEN <<>>
  ELSE IF IsWhitespace(t[Len(t)]) THEN TrimEnd(SubSeq(t, 1, Len(t) - 1)) ELSE t

\* String.prototype.trim
Trim(t) == TrimEnd(TrimStart(t))

\* String.prototype.includes, on whole segments
Includes(t, sub) ==
  \E i \in 1..(Len(t) + 1) :
    /\ i + Len(sub) - 1 <= Len(t)
    /\ SubSeq(t, i, i + Len(sub) - 1) = sub

\* The contents a caller hands to the send operation: empty, one character,
\* whitespace only, leading and trailing whitespace, exactly the maximum,
\* one more than the maximum.
Contents ==
  { EmptyText,
    <<Seg("x", 1)>>,
    <<Seg(" ", 1)>>,
    <<Seg(" ", 1), Seg("x", 1), Seg(" ", 1)>>,
    <<Seg("x", MaxContentLength)>>,
    <<Seg("x", MaxContentLength + 1)>> }

\* ------------------------------------------------------------ error kinds
NoError == "none"
EmptyMessage == "Message content cannot be empty"
TooLong == "Message too long"
ConfigurationError == "OPENAI_API_KEY environment variable is not set"
PersistenceError == "db.insert rejected"
ValidationErrors == {EmptyMessage, TooLong}

\* Faulty variant: the schema without its .max(1000) check
SchemaWithoutMax(content) ==
  IF TextLen(content) < MinContentLength THEN EmptyMessage ELSE NoError

\* z.string().min(1, ...).max(1000, ...): the first failed check's message,
\* or NoError when the content parses
sendMessageInputSchema(content) ==
  IF TextLen(content) < MinContentLength THEN EmptyMessage
  ELSE IF TextLen(content) > MaxContentLength THEN TooLong
  ELSE NoError

\* --------------------------------------------------------------- messages
NoMessage == [id |-> 0, content |-> EmptyText, role |-> "none", created_at |-> 0]

HumanMessage(content) == [type |-> "human", content |-> content]
AIMessage(content) == [type |-> "ai", content |-> content]

\* ------------------------------------------------------------- the state
VARIABLES
  store,      \* the messages table, in insertion order
  writer,     \* ghost: writer[i] is the send invocation that inserted store[i]
  nextId,     \* the serial column's sequence
  clock,      \* the database's now()
  env,        \* the process environment: [test, apiKey]
  calls,      \* the send invocations
  lastRead,   \* the latest getRecentMessages call: its argument and result,
              \* and, when the caller asks again, the first call's result
  client      \* the browser's App component: its React state and its
              \* requests in flight

vars == <<store, writer, nextId, clock, env, calls, lastRead, client>>

IdleCall ==
  [ pc |-> "idle", content |-> EmptyText, messages |-> <<>>,
    userMessage |-> NoMessage, botResponse |-> NoMessage,
    botContent |-> EmptyText, outcome |-> "none", fetches |-> 0,
    inserts |-> 0, error |-> NoError ]

\* getRecentMessages' argument: a limit, or none given
NoLimit == [given |-> FALSE, value |-> 0]
Limit(n) == [given |-> TRUE, value |-> n]
LimitArgs == {NoLimit} \cup {Limit(n) : n \in 0..MaxLimit}

NoRead ==
  [called |-> FALSE, arg |-> NoLimit, result |-> <<>>,
   again |-> FALSE, first |-> <<>>]

\* The App component before it is mounted: useState([]), useState(''),
\* useState(false), useState(true); no request in flight
NoClient ==
  [ messages |-> <<>>, inputValue |-> EmptyText, isLoading |-> FALSE,
    isLoadingMessages |-> TRUE,
    load |-> "unmounted",      \* where loadRecentMessages stands
    recentMessages |-> <<>>,   \* the history response on its way
    pending |-> {},            \* ghost: the sends awaiting their response
    sent |-> 0,                \* ghost: the send requests issued so far
    applied |-> {},            \* ghost: the sends whose response was shown
    ignored |-> FALSE ]        \* ghost: a submit has returned at the guard

\* The table as the process finds it: empty, or holding an earlier
\* conversation of more rows than the default limit, written before time 0
Earlier(n) ==
  [i \in 1..n |->
     [ id |-> i, content |-> Lit("earlier"),
       role |-> IF i % 2 = 1 THEN "user" ELSE "assistant",
       created_at |-> i - n - 1 ]]

InitialSizes == {0, DefaultLimit + 1}

\* The rows written since the process started
Fresh == {i \in DOMAIN store : store[i].created_at >= 0}

Init ==
  /\ store = <<>>
  /\ writer = <<>>
  /\ nextId = 1
  /\ clock = 0
  /\ env \in [test : BOOLEAN, apiKey : BOOLEAN]
  /\ calls = [c \in Calls |-> IdleCall]
  /\ lastRead = NoRead
  /\ client = NoClient

\* Faulty variant: the test environment is never recognised
NeverTestEnvironment == FALSE

\* const isTestEnvironment = () => ...
isTestEnvironment == env.test


\* ------------------------------------------------- the completion provider
\* What the HTTP call to the provider can come to: fetch rejects, a non-2xx
\* status, a 2xx body that does not parse, a 2xx body without
\* choices[0].message, or a completion (whose text may be empty).
ProviderResponses ==
  { [kind |-> k, content |-> EmptyText] :
      k \in {"networkError", "notOk", "badJson", "noChoices"} }
  \cup { [kind |-> "ok", content |-> t] : t \in {Lit("Hello!"), EmptyText} }

\* initializeChatOpenAI: the error it throws, or NoError
initializeChatOpenAI ==
  IF ~env.apiKey /\ ~isTestEnvironment THEN ConfigurationError ELSE NoError

InvalidResponseFormat == "Invalid response format from OpenAI API"

\* The error raised inside invoke's try block for a provider response
Thrown(response) ==
  CASE response.kind = "networkError" -> "fetch failed"
    [] response.kind = "notOk" -> "OpenAI API error"
    [] response.kind = "badJson" -> "Unexpected token in JSON"
    [] response.kind = "noChoices" -> InvalidResponseFormat
    [] OTHER -> NoError

ResponsePrefix == Lit("AI Response: I received your message \"")

TestResponse(lastMessage) ==
  ResponsePrefix \o lastMessage.content \o Lit("\". This is a test response.")

FallbackResponse(lastMessage) ==
  ResponsePrefix \o lastMessage.content
    \o Lit("\". (Fallback response due to API error)")

DefaultApology == Lit("I apologize, but I could not generate a response.")

\* Faulty variant: invoke lets the errors of its try block escape
InvokeCatchesNothing(error) == FALSE

\* The catch of ChatOpenAI.invoke takes every error raised in its try block
InvokeCatches(error) == error # NoError

\* ChatOpenAI.invoke once the provider has answered: the AIMessage it
\* returns, or the error it throws
ChatOpenAI_invoke(messages, response) ==
  LET lastMessage == messages[Len(messages)]
      thrown == Thrown(response)
  IN IF thrown = NoError
       THEN [error |-> NoError, message |-> AIMessage(response.content)]
       ELSE IF InvokeCatches(thrown)
         THEN [error |-> NoError,
               message |-> AIMessage(FallbackResponse(lastMessage))]
         ELSE [error |-> thrown, message |-> AIMessage(EmptyText)]

\* Faulty variant: callModel's catch turns every error into an apology
callModelCatchesAll(invoked) ==
  IF invoked.error = NoError
    THEN [error |-> NoError, messages |-> <<invoked.message>>]
    ELSE [error |-> NoError,
          messages |-> << AIMessage(
            Lit("I apologize, but I could not process that request. (Error: ")
              \o Lit(invoked.error) \o Lit(")")) >>]

\* callModel's catch: the API key error is thrown again, any other error
\* becomes an apology
callModel(invoked) ==
  IF invoked.error = NoError
    THEN [error |-> NoError, messages |-> <<invoked.message>>]
    ELSE IF invoked.error = ConfigurationError
      THEN [error |-> invoked.error, messages |-> <<>>]
      ELSE [error |-> NoError,
            messages |-> << AIMessage(
              Lit("I apologize, but I could not process that request. (Error: ")
                \o Lit(invoked.error) \o Lit(")")) >>]


\* The compiled graph's merge of the node's result into the state
GraphMerge(stateMessages, resultMessages) == stateMessages \o resultMessages

\* Faulty variant: an empty reply is kept as it is
BotContentAsReceived(resultMessages) ==
  LET aiMessages == SelectSeq(resultMessages, LAMBDA m : m.type = "ai")
  IN IF aiMessages = <<>> THEN EmptyText
     ELSE aiMessages[Len(aiMessages)].content

\* sendMessage's extraction of the reply from the graph's result
BotContent(resultMessages) ==
  LET aiMessages == SelectSeq(resultMessages, LAMBDA m : m.type = "ai")
  IN IF aiMessages = <<>> \/ TextLen(aiMessages[Len(aiMessages)].content) = 0
       THEN DefaultApology
       ELSE aiMessages[Len(aiMessages)].content

\* ------------------------------------------------------------- the store
\* Faulty variant: the id does not come from the sequence
NewRowSameId(content, role) ==
  [id |-> 1, content |-> content, role |-> role, created_at |-> clock]

\* The row db.insert(...).values({content, role}).returning() creates:
\* id from the serial sequence, created_at from defaultNow()
NewRow(content, role) ==
  [id |-> nextId, content |-> content, role |-> role, created_at |-> clock]

\* Faulty variant: the statement overwrites the latest row (an upsert)
DbInsertOverwrites(c, row) ==
  /\ store' = IF store = <<>> THEN <<row>>
                ELSE [store EXCEPT ![Len(store)] = row]
  /\ writer' = IF writer = <<>> THEN <<c>>
                 ELSE [writer EXCEPT ![Len(writer)] = c]
  /\ nextId' = nextId + 1

DbInsert(c, row) ==
  /\ store' = Append(store, row)
  /\ writer' = Append(writer, c)
  /\ nextId' = nextId + 1

\* A getRecentMessages call is one SELECT, atomic at the database.  lastRead
\* holds its result until ReadReturn hands it to the caller, and no other
\* step is taken in between: the return touches no other state, so no
\* behaviour is lost.
ReadIdle == ~lastRead.called

\* ------------------------------------------------------ the send operation
\* The request reaches the sendMessage procedure: the input is parsed with
\* sendMessageInputSchema, and only a parsed input is handed to the handler.
Request(c) ==
  /\ ReadIdle
  /\ calls[c].pc = "idle"
  /\ \A d \in Calls : d < c => calls[d].pc # "idle"
  /\ \E content \in Contents :
       LET err == sendMessageInputSchema(content)
       IN calls' = [calls EXCEPT
            ![c].content = content,
            ![c].pc = IF err = NoError THEN "insertUser" ELSE "failed",
            ![c].error = err]
  /\ UNCHANGED <<store, writer, nextId, clock, env, lastRead, client>>

\* sendMessage, the user-message insert
UserRole == "user"

\* Faulty variant: a rejected user insert is swallowed and the send goes on
InsertUserSwallowsError(c) ==
  /\ ReadIdle
  /\ calls[c].pc = "insertUser"
  /\ \/ LET row == NewRow(calls[c].content, UserRole)
        IN /\ DbInsert(c, row)
           /\ calls' = [calls EXCEPT
                ![c].userMessage = row,
                ![c].messages = <<HumanMessage(calls[c].content)>>,
                ![c].inserts = @ + 1,
                ![c].pc = "callModel"]
     \/ /\ calls' = [calls EXCEPT
             ![c].messages = <<HumanMessage(calls[c].content)>>,
             ![c].inserts = @ + 1,
             ![c].pc = "callModel"]
        /\ UNCHANGED <<store, writer, nextId>>
  /\ UNCHANGED <<clock, env, lastRead, client>>

InsertUser(c) ==
  /\ ReadIdle
  /\ calls[c].pc = "insertUser"
  /\ \/ LET row == NewRow(calls[c].content, UserRole)
        IN /\ DbInsert(c, row)
           /\ calls' = [calls EXCEPT
                ![c].userMessage = row,
                ![c].messages = <<HumanMessage(calls[c].content)>>,
                ![c].inserts = @ + 1,
                ![c].pc = "callModel"]
     \/ /\ calls' = [calls EXCEPT
             ![c].inserts = @ + 1,
             ![c].pc = "failed",
             ![c].error = PersistenceError]
        /\ UNCHANGED <<store, writer, nextId>>
  /\ UNCHANGED <<clock, env, lastRead, client>>

\* chatGraph.invoke -> callModel -> initializeChatOpenAI, chat.invoke up to
\* its await of fetch
CallModel(c) ==
  /\ ReadIdle
  /\ calls[c].pc = "callModel"
  /\ IF initializeChatOpenAI # NoError
       THEN LET node == callModel([error |-> initializeChatOpenAI,
                                   message |-> AIMessage(EmptyText)])
                merged == GraphMerge(calls[c].messages, node.messages)
            IN IF node.error # NoError
                 THEN calls' = [calls EXCEPT
                        ![c].pc = "failed", ![c].error = node.error]
                 ELSE calls' = [calls EXCEPT
                        ![c].messages = merged,
                        ![c].botContent = BotContent(merged),
                        ![c].pc = "insertBot"]
       ELSE IF isTestEnvironment
         THEN LET ai == AIMessage(TestResponse(
                           calls[c].messages[Len(calls[c].messages)]))
                  merged == GraphMerge(calls[c].messages,
                              callModel([error |-> NoError, message |-> ai]).messages)
              IN calls' = [calls EXCEPT
                   ![c].messages = merged,
                   ![c].botContent = BotContent(merged),
                   ![c].pc = "insertBot"]
         ELSE calls' = [calls EXCEPT
                ![c].fetches = @ + 1, ![c].pc = "fetch"]
  /\ UNCHANGED <<store, writer, nextId, clock, env, lastRead, client>>

\* Faulty variant: a failed provider request is sent again
FetchReturnRetries(c) ==
  /\ ReadIdle
  /\ calls[c].pc = "fetch"
  /\ \E response \in ProviderResponses :
       LET node == callModel(ChatOpenAI_invoke(calls[c].messages, response))
           merged == GraphMerge(calls[c].messages, node.messages)
       IN IF response.kind # "ok"
            THEN calls' = [calls EXCEPT ![c].pc = "callModel"]
            ELSE calls' = [calls EXCEPT
                   ![c].outcome = response.kind,
                   ![c].messages = merged,
                   ![c].botContent = BotContent(merged),
                   ![c].pc = "insertBot"]
  /\ UNCHANGED <<store, writer, nextId, clock, env, lastRead, client>>

\* The provider's answer arrives: the rest of chat.invoke, the merge and the
\* extraction of the reply
FetchReturn(c) ==
  /\ ReadIdle
  /\ calls[c].pc = "fetch"
  /\ \E response \in ProviderResponses :
       LET node == callModel(ChatOpenAI_invoke(calls[c].messages, response))
           merged == GraphMerge(calls[c].messages, node.messages)
       IN IF node.error # NoError
            THEN calls' = [calls EXCEPT
                   ![c].outcome = response.kind,
                   ![c].pc = "failed",
                   ![c].error = node.error]
            ELSE calls' = [calls EXCEPT
                   ![c].outcome = response.kind,
                   ![c].messages = merged,
                   ![c].botContent = BotContent(merged),
                   ![c].pc = "insertBot"]
  /\ UNCHANGED <<store, writer, nextId, clock, env, lastRead, client>>

\* Faulty variant: the reply is stored under the user's role
AssistantRoleAsUser == "user"

\* sendMessage, the assistant-message insert and the return
AssistantRole == "assistant"

\* Faulty variant: the reply is kept in a variable that all invocations
\* share, so the insert may store the reply of another invocation
InsertBotSharedReply(c) ==
  /\ ReadIdle
  /\ calls[c].pc = "insertBot"
  /\ \E d \in DOMAIN calls :
       /\ calls[d].pc \in {"insertBot", "done"}
       /\ LET row == NewRow(calls[d].botContent, AssistantRole)
          IN /\ DbInsert(c, row)
             /\ calls' = [calls EXCEPT
                  ![c].botResponse = row,
                  ![c].inserts = @ + 1,
                  ![c].pc = "done"]
  /\ UNCHANGED <<clock, env, lastRead, client>>

InsertBot(c) ==
  /\ ReadIdle
  /\ calls[c].pc = "insertBot"
  /\ \/ LET row == NewRow(calls[c].botContent, AssistantRole)
        IN /\ DbInsert(c, row)
           /\ calls' = [calls EXCEPT
                ![c].botResponse = row,
                ![c].inserts = @ + 1,
                ![c].pc = "done"]
     \/ /\ calls' = [calls EXCEPT
             ![c].inserts = @ + 1,
             ![c].pc = "failed",
             ![c].error = PersistenceError]
        /\ UNCHANGED <<store, writer, nextId>>
  /\ UNCHANGED <<clock, env, lastRead, client>>

\* Time passes at the database: now() advances and never runs backwards.
\* Two inserts with no Tick between them get the same created_at.
Tick ==
  /\ ReadIdle
  /\ clock < MaxClock
  /\ clock' = clock + 1
  /\ UNCHANGED <<store, writer, nextId, env, calls, lastRead, client>>


\* ------------------------------------------------------- the history read
\* Faulty variant: the query orders by created_at ascending
Asc(a, b) == a.created_at <= b.created_at

\* Faulty variant: the query has no ORDER BY, any row may come first
Unordered(a, b) == TRUE

\* .orderBy(desc(messagesTable.created_at)): a sorts no later than b
Desc(a, b) == a.created_at >= b.created_at

\* Faulty variant: a limit of 0 is taken for no limit
LimitRowsUnlessZero(limit, n) == IF limit = 0 \/ limit >= n THEN n ELSE limit

\* Faulty variant: the query returns one row fewer than the table holds
LimitRowsOneShort(limit, n) == IF limit < n - 1 THEN limit ELSE n - 1

\* .limit(limit): the number of rows returned out of n
LimitRows(limit, n) == IF limit < n THEN limit ELSE n

\* The results SELECT ... ORDER BY created_at DESC may give for the first k
\* rows of `rows` (indices into the table): rows of equal created_at come in
\* any order
RECURSIVE Ordered(_, _)
Ordered(rows, k) ==
  IF k = 0 \/ rows = {} THEN {<<>>}
  ELSE LET newest == -(CHOOSE x \in {-i : i \in rows} :
                              \A j \in rows : Desc(store[-x], store[j]))
           first == {i \in rows : Desc(store[i], store[newest])}
       IN UNION { { <<store[i]>> \o rest : rest \in Ordered(rows \ {i}, k - 1) }
                  : i \in first }

\* getRecentMessages = async (limit: number = 50)
EffectiveLimit(arg) == IF arg.given THEN arg.value ELSE DefaultLimit

getRecentMessages(arg) ==
  Ordered(DOMAIN store, LimitRows(EffectiveLimit(arg), Len(store)))

GetRecentMessages ==
  /\ ReadIdle
  /\ \E arg \in LimitArgs :
       \E result \in getRecentMessages(arg) :
         lastRead' = [called |-> TRUE, arg |-> arg, result |-> result,
                      again |-> FALSE, first |-> result]
  /\ UNCHANGED <<store, writer, nextId, clock, env, calls, client>>

\* The client's history load: trpc.getRecentMessages.query({ limit: 50 })
ClientLimit == 50

LoadRecentMessages ==
  /\ ReadIdle
  /\ \E result \in getRecentMessages(Limit(ClientLimit)) :
       lastRead' = [called |-> TRUE, arg |-> Limit(ClientLimit),
                    result |-> result, again |-> FALSE, first |-> result]
  /\ UNCHANGED <<store, writer, nextId, clock, env, calls, client>>

\* A second getRecentMessages call with the same argument, made before
\* anything else runs
ReadAgain ==
  /\ lastRead.called
  /\ ~lastRead.again
  /\ \E result \in getRecentMessages(lastRead.arg) :
       lastRead' = [lastRead EXCEPT !.again = TRUE, !.result = result]
  /\ UNCHANGED <<store, writer, nextId, clock, env, calls, client>>

ReadReturn ==
  /\ lastRead.called
  /\ lastRead' = NoRead
  /\ UNCHANGED <<store, writer, nextId, clock, env, calls, client>>

\* ------------------------------------------------------ the send pipeline
\* A rejected insert leaves the table as it was; each insert is its own
\* statement, there is no transaction around the two inserts of a send.
Next ==
  \/ \E c \in Calls : Request(c)
  \/ \E c \in Calls : InsertUser(c)
  \/ \E c \in Calls : CallModel(c)
  \/ \E c \in Calls : FetchReturn(c)
  \/ \E c \in Calls : InsertBot(c)
  \/ Tick

Spec == Init /\ [][Next]_vars

\* ------------------------------------- the application: sends and reads
\* The server as the client drives it: sends, and history loads with the
\* client's limit.
NextChat ==
  \/ Next
  \/ LoadRecentMessages
  \/ ReadReturn

SpecChat == Init /\ [][NextChat]_vars

\* ------------------------------------------- the read path under its tests
\* get_recent_messages.test.ts fills the table with db.insert directly, with
\* or without a delay between two inserts, and then reads it.  The table may
\* already hold an earlier conversation.
InitRead ==
  /\ \E n \in InitialSizes :
       /\ store = Earlier(n)
       /\ writer = [i \in 1..n |-> 0]
       /\ nextId = n + 1
  /\ clock = 0
  /\ env = [test |-> TRUE, apiKey |-> FALSE]
  /\ calls = [c \in Calls |-> IdleCall]
  /\ lastRead = NoRead
  /\ client = NoClient

TestInsert ==
  /\ ReadIdle
  /\ Cardinality(Fresh) < MaxInserts
  /\ \E role \in {UserRole, AssistantRole} :
       DbInsert(0, NewRow(Lit("Message"), role))
  /\ UNCHANGED <<clock, env, calls, lastRead, client>>

NextRead ==
  \/ TestInsert
  \/ Tick
  \/ GetRecentMessages
  \/ ReadReturn

SpecRead == InitRead /\ [][NextRead]_vars

\* ------------------------------------------------ the same read, made twice
InitReread ==
  /\ store = <<>>
  /\ writer = <<>>
  /\ nextId = 1
  /\ clock = 0
  /\ env = [test |-> TRUE, apiKey |-> FALSE]
  /\ calls = [c \in Calls |-> IdleCall]
  /\ lastRead = NoRead
  /\ client = NoClient

NextReread ==
  \/ TestInsert
  \/ Tick
  \/ GetRecentMessages
  \/ ReadAgain
  \/ ReadReturn

SpecReread == InitReread /\ [][NextReread]_vars

\* ------------------------------------- sends into an existing conversation
\* The send pipeline started on a table that may already hold an earlier
\* conversation.
InitResume ==
  /\ \E n \in InitialSizes :
       /\ store = Earlier(n)
       /\ writer = [i \in 1..n |-> 0]
       /\ nextId = n + 1
  /\ clock = 0
  /\ env \in [test : BOOLEAN, apiKey : BOOLEAN]
  /\ calls = [c \in Calls |-> IdleCall]
  /\ lastRead = NoRead
  /\ client = NoClient

SpecResume == InitResume /\ [][Next]_vars

\* ------------------------------------------------------- concurrent sends
\* Several sendMessage invocations, each already handed its parsed input,
\* run at the same time: the event loop switches between them at every
\* await (the two inserts and the provider call).  Each has a content of
\* its own.  The order of the log is the order of the inserts, whatever
\* now() reads, so the clock stands still here.
Senders == 1..MaxSenders

SenderContent(c) == <<Seg("x", c)>>

InitConcurrent ==
  /\ store = <<>>
  /\ writer = <<>>
  /\ nextId = 1
  /\ clock = 0
  /\ env \in {[test |-> TRUE, apiKey |-> FALSE], [test |-> FALSE, apiKey |-> TRUE]}
  /\ calls = [c \in Senders |->
               [IdleCall EXCEPT !.content = SenderContent(c),
                                !.pc = "insertUser"]]
  /\ lastRead = NoRead
  /\ client = NoClient

NextConcurrent ==
  \/ \E c \in Senders : InsertUser(c)
  \/ \E c \in Senders : CallModel(c)
  \/ \E c \in Senders : FetchReturn(c)
  \/ \E c \in Senders : InsertBot(c)

SpecConcurrent == InitConcurrent /\ [][NextConcurrent]_vars

\* ------------------------------------------------------ progress of a send
\* The runtime resumes an invocation whose awaited insert or local step can
\* go on, so the program's own steps are weakly fair.  The provider's answer
\* is not: fetch is called without a signal or a timeout
\* (send_message.ts:84-96), so nothing in the program makes the await end.
Fairness ==
  \A c \in Calls :
    /\ WF_vars(InsertUser(c))
    /\ WF_vars(CallModel(c))
    /\ WF_vars(InsertBot(c))

SpecLive == Init /\ [][Next]_vars /\ Fairness

\* ------------------------------------------------------------- the client
\* App.tsx: one component holding the displayed messages, the input and two
\* loading flags.  On mount it loads the history; a submit sends the input.
\* Both are requests to the server, answered at the server's pace; their
\* responses reach the component in any order.

\* Array.prototype.reverse
Reverse(seq) == [i \in 1..Len(seq) |-> seq[Len(seq) + 1 - i]]

\* What the user may have in the input (maxLength 1000)
Typed ==
  { EmptyText, <<Seg(" ", 1)>>, <<Seg(" ", 1), Seg("x", 1), Seg(" ", 1)>> }

\* useEffect(() => { loadRecentMessages() }): the query leaves the browser
Mount ==
  /\ client.load = "unmounted"
  /\ client' = [client EXCEPT !.load = "requested", !.isLoadingMessages = TRUE]
  /\ UNCHANGED <<store, writer, nextId, clock, env, calls, lastRead>>

\* The server runs getRecentMessages for the client's query, or fails
HistoryQuery ==
  /\ client.load = "requested"
  /\ \/ \E result \in getRecentMessages(Limit(ClientLimit)) :
          client' = [client EXCEPT !.load = "answered",
                                   !.recentMessages = result]
     \/ client' = [client EXCEPT !.load = "failed"]
  /\ UNCHANGED <<store, writer, nextId, clock, env, calls, lastRead>>

\* loadRecentMessages after its await: setMessages(recentMessages.reverse())
\* or the catch, then the finally
HistorySettles ==
  /\ client.load \in {"answered", "failed"}
  /\ client' = [client EXCEPT
       !.messages = IF client.load = "answered"
                      THEN Reverse(client.recentMessages) ELSE @,
       !.recentMessages = <<>>,
       !.isLoadingMessages = FALSE,
       !.load = "settled"]
  /\ UNCHANGED <<store, writer, nextId, clock, env, calls, lastRead>>

\* onChange of the input, which is disabled while a send is pending
Type ==
  /\ client.load # "unmounted"
  /\ ~client.isLoading
  /\ \E text \in Typed \ {client.inputValue} :
       client' = [client EXCEPT !.inputValue = text]
  /\ UNCHANGED <<store, writer, nextId, clock, env, calls, lastRead>>

\* Faulty variant: the guard of handleSendMessage does not look at isLoading
SubmitGuardNoLoading == Trim(client.inputValue) = EmptyText

\* if (!inputValue.trim() || isLoading) return;
SubmitGuard == Trim(client.inputValue) = EmptyText \/ client.isLoading

\* handleSendMessage up to its await: the guard, setIsLoading(true) and the
\* request, which the server's procedure parses as in Request
Submit ==
  /\ client.load # "unmounted"
  /\ IF SubmitGuard
       THEN /\ client' = [client EXCEPT !.ignored = TRUE]
            /\ UNCHANGED calls
       ELSE LET c == client.sent + 1
                content == Trim(client.inputValue)
                err == sendMessageInputSchema(content)
            IN /\ c \in Senders
               /\ client' = [client EXCEPT
                    !.isLoading = TRUE,
                    !.sent = c,
                    !.pending = @ \cup {c}]
               /\ calls' = [calls EXCEPT
                    ![c].content = content,
                    ![c].pc = IF err = NoError THEN "insertUser" ELSE "failed",
                    ![c].error = err]
  /\ UNCHANGED <<store, writer, nextId, clock, env, lastRead>>

\* handleSendMessage after its await, the response: both messages appended,
\* the input cleared, then the finally
SendResolves(c) ==
  /\ c \in client.pending
  /\ calls[c].pc = "done"
  /\ client' = [client EXCEPT
       !.messages = @ \o <<calls[c].userMessage, calls[c].botResponse>>,
       !.inputValue = EmptyText,
       !.isLoading = FALSE,
       !.pending = @ \ {c},
       !.applied = @ \cup {c}]
  /\ UNCHANGED <<store, writer, nextId, clock, env, calls, lastRead>>

\* handleSendMessage after its await, the error: the catch, then the finally
SendRejects(c) ==
  /\ c \in client.pending
  /\ calls[c].pc = "failed"
  /\ client' = [client EXCEPT !.isLoading = FALSE, !.pending = @ \ {c}]
  /\ UNCHANGED <<store, writer, nextId, clock, env, calls, lastRead>>

InitClient ==
  /\ store = <<>>
  /\ writer = <<>>
  /\ nextId = 1
  /\ clock = 0
  /\ env \in {[test |-> TRUE, apiKey |-> FALSE], [test |-> FALSE, apiKey |-> TRUE]}
  /\ calls = [c \in Senders |-> IdleCall]
  /\ lastRead = NoRead
  /\ client = NoClient

NextClient ==
  \/ Mount
  \/ HistoryQuery
  \/ HistorySettles
  \/ Type
  \/ Submit
  \/ \E c \in Senders : InsertUser(c)
  \/ \E c \in Senders : CallModel(c)
  \/ \E c \in Senders : FetchReturn(c)
  \/ \E c \in Senders : InsertBot(c)
  \/ \E c \in Senders : SendResolves(c)
  \/ \E c \in Senders : SendRejects(c)
  \/ Tick

SpecClient == InitClient /\ [][NextClient]_vars

\* The form alone: typing, submits and the sends they start.  The history
\* load and the clock touch neither the input nor isLoading nor a send
\* request, and are left out.
NextForm ==
  \/ Mount
  \/ Type
  \/ Submit
  \/ \E c \in Senders : InsertUser(c)
  \/ \E c \in Senders : CallModel(c)
  \/ \E c \in Senders : FetchReturn(c)
  \/ \E c \in Senders : InsertBot(c)
  \/ \E c \in Senders : SendResolves(c)
  \/ \E c \in Senders : SendRejects(c)

SpecForm == InitClient /\ [][NextForm]_vars


\* =================================================================== claims
\* The rows of the table a send invocation inserted
RowsOf(c) == {i \in DOMAIN store : writer[i] = c}

\* C1: every sendMessage call that completes successfully has added exactly
\* two messages to the store, one with role user and one with role
\* assistant, and the assistant message's created_at is greater than or
\* equal to the user message's created_at.
C1_TwoMessagesPerSend ==
  \A c \in Calls :
    calls[c].pc = "done" =>
      /\ Cardinality(RowsOf(c)) = 2
      /\ Cardinality({i \in RowsOf(c) : store[i].role = "user"}) = 1
      /\ Cardinality({i \in RowsOf(c) : store[i].role = "assistant"}) = 1
      /\ \A i, j \in RowsOf(c) :
           store[i].role = "user" /\ store[j].role = "assistant"
             => store[j].created_at >= store[i].created_at
      /\ calls[c].botResponse.created_at >= calls[c].userMessage.created_at

\* A send completed whose reply was stored strictly later than its message
C1_Witness ==
  \E c \in Calls :
    /\ calls[c].pc = "done"
    /\ calls[c].botResponse.created_at > calls[c].userMessage.created_at

\* C2: for every valid content (1 to 1000 characters) the send operation
\* returns exactly two messages: the first has role user and content equal
\* to the trimmed input, the second has role assistant and an id different
\* from the first.
C2_ReturnsTrimmedContent ==
  \A c \in Calls :
    calls[c].pc = "done" =>
      /\ calls[c].userMessage.role = "user"
      /\ calls[c].userMessage.content = Trim(calls[c].content)
      /\ calls[c].botResponse.role = "assistant"
      /\ calls[c].botResponse.id # calls[c].userMessage.id

\* C3: for every content that is the empty string or longer than 1000
\* characters the send operation fails with a validation error, and the
\* store holds the same messages after the call as before it: the call
\* attempted no insert and no row of the table is its own.
C3_InvalidContentRejected ==
  \A c \in Calls :
    ( /\ calls[c].pc # "idle"
      /\ \/ TextLen(calls[c].content) = 0
         \/ TextLen(calls[c].content) > 1000 )
    => /\ calls[c].pc = "failed"
       /\ calls[c].error \in {"Message content cannot be empty", "Message too long"}
       /\ calls[c].inserts = 0
       /\ RowsOf(c) = {}

\* A send of 1001 characters was rejected
C3_Witness ==
  \E c \in Calls :
    /\ TextLen(calls[c].content) = 1001
    /\ calls[c].pc = "failed"
    /\ calls[c].error = "Message too long"

\* C4: content that is non-empty but becomes empty after trimming
\* (whitespace only) is rejected by the send operation with a validation
\* error, and no store write occurs for it.
C4_WhitespaceOnlyRejected ==
  \A c \in Calls :
    ( /\ calls[c].pc # "idle"
      /\ TextLen(calls[c].content) > 0
      /\ TextLen(Trim(calls[c].content)) = 0 )
    => /\ calls[c].pc = "failed"
       /\ calls[c].error \in ValidationErrors
       /\ calls[c].inserts = 0
       /\ RowsOf(c) = {}

\* C5: when the provider credential is absent and test mode is disabled, the
\* send operation fails with a configuration error and no message of that
\* call is persisted.
C5_ConfigurationErrorPersistsNothing ==
  \A c \in Calls :
    ( /\ ~env.apiKey
      /\ ~env.test
      /\ calls[c].pc = "failed"
      /\ calls[c].error = ConfigurationError )
    => RowsOf(c) = {}

\* C6: when the provider call fails at the transport level (network error or
\* non-2xx status) with a credential configured, the failure does not fail
\* the send: the reply is a fallback string that contains the content of
\* the last user message, the user message is persisted, only a persistence
\* error can still fail the call, and the completed call has persisted and
\* returned the fallback as its assistant message.
IsRow(m) == \E i \in DOMAIN store : store[i] = m

C6_TransportFailureFallsBack ==
  \A c \in Calls :
    calls[c].outcome \in {"networkError", "notOk"} =>
      /\ env.apiKey
      /\ calls[c].pc \in {"insertBot", "done", "failed"}
      /\ Includes(calls[c].botContent, calls[c].content)
      /\ Includes(calls[c].botContent,
                  Lit("\". (Fallback response due to API error)"))
      /\ IsRow(calls[c].userMessage)
      /\ calls[c].userMessage.content = calls[c].content
      /\ calls[c].userMessage.role = "user"
      /\ calls[c].pc = "failed" => calls[c].error = PersistenceError
      /\ calls[c].pc = "done" =>
           /\ IsRow(calls[c].botResponse)
           /\ calls[c].botResponse.role = "assistant"
           /\ calls[c].botResponse.content = calls[c].botContent

\* A send completed after the provider answered with a non-2xx status
C6_Witness ==
  \E c \in Calls :
    /\ calls[c].outcome = "notOk"
    /\ calls[c].pc = "done"
    /\ TextLen(calls[c].content) > 0

\* C7: when the provider answers successfully but the payload lacks the
\* expected completion field, the completion step fails with an
\* invalid-provider-response error that propagates to the caller of the
\* send operation; it is not replaced by a fallback reply.
C7_InvalidResponsePropagates ==
  \A c \in Calls :
    calls[c].outcome = "noChoices" =>
      /\ calls[c].pc = "failed"
      /\ calls[c].error = InvalidResponseFormat

\* C8: a send operation aborted by a persistence error leaves no partial
\* write: if either insert of the call fails, the call fails and the store
\* contains no message created by that call.
C8_NoPartialWrite ==
  \A c \in Calls :
    calls[c].error = PersistenceError =>
      /\ calls[c].pc = "failed"
      /\ RowsOf(c) = {}


\* The limit a getRecentMessages call asked for
AskedLimit == IF lastRead.arg.given THEN lastRead.arg.value ELSE 50

\* C9: getRecentMessages(limit) never returns more than limit entries for any
\* non-negative limit and any store contents, returns the empty sequence for
\* limit 0 even when the store is non-empty, applies a limit of 50 when none
\* is given, and returns its entries sorted non-increasing by created_at.
C9_LimitAndOrder ==
  lastRead.called =>
    LET result == lastRead.result
    IN /\ Len(result) <= AskedLimit
       /\ (lastRead.arg.given /\ lastRead.arg.value = 0) => result = <<>>
       /\ ~lastRead.arg.given =>
            Len(result) = IF Len(store) > 50 THEN 50 ELSE Len(store)
       /\ \A i \in 1..(Len(result) - 1) :
            result[i].created_at >= result[i + 1].created_at

\* A read without a limit over a table of more than 50 rows returned 50
C9_Witness ==
  /\ lastRead.called
  /\ ~lastRead.arg.given
  /\ Len(store) > 50
  /\ Len(lastRead.result) = 50

\* The k most recently inserted messages, the most recently inserted first
MostRecentlyInserted(k) ==
  LET n == Len(store)
      m == IF k < n THEN k ELSE n
  IN [i \in 1..m |-> store[n - i + 1]]

\* C10: after any sequence of n sequential inserts, getRecentMessages(k)
\* returns exactly the min(k, n) most recently inserted messages, the most
\* recently inserted first.
C10_MostRecentlyInserted ==
  lastRead.called => lastRead.result = MostRecentlyInserted(AskedLimit)

DistinctTimestamps ==
  \A i, j \in DOMAIN store :
    i # j => store[i].created_at # store[j].created_at

\* C10, amended: after any sequence of n sequential inserts whose created_at
\* values are pairwise distinct, getRecentMessages(k) returns exactly the
\* min(k, n) most recently inserted messages, the most recently inserted
\* first.
C10_MostRecentlyInsertedDistinct ==
  (lastRead.called /\ DistinctTimestamps)
    => lastRead.result = MostRecentlyInserted(AskedLimit)

\* Three rows inserted at three different times, then a read of the two
\* most recent
C10_Witness ==
  /\ lastRead.called
  /\ DistinctTimestamps
  /\ Cardinality(Fresh) = 3
  /\ lastRead.arg = Limit(2)
  /\ lastRead.result = <<store[Len(store)], store[Len(store) - 1]>>


\* Faithful copy of a returned message among the entries of a read
Returned(m, result) ==
  \E i \in DOMAIN result :
    /\ result[i].id = m.id
    /\ result[i].content = m.content
    /\ result[i].role = m.role

\* C11: after a successful send, a following getRecentMessages call with a
\* limit that covers the store contains both messages the send returned,
\* each with the same id, content and role as in the send's return value.
C11_RoundTrip ==
  (lastRead.called /\ AskedLimit >= Len(store)) =>
    \A c \in Calls :
      calls[c].pc = "done" =>
        /\ Returned(calls[c].userMessage, lastRead.result)
        /\ Returned(calls[c].botResponse, lastRead.result)

\* A read that follows a completed send
C11_Witness ==
  /\ lastRead.called
  /\ AskedLimit >= Len(store)
  /\ \E c \in Calls : calls[c].pc = "done"
  /\ Len(lastRead.result) >= 2

\* C12 (as stated).  Two getRecentMessages calls with the same limit and no
\* write between them return identical sequences, also when messages share
\* a created_at.
C12_ReadsIdempotent ==
  lastRead.again => lastRead.result = lastRead.first

\* A step that is a getRecentMessages call
ReadStep == lastRead'.called /\ lastRead' # lastRead

\* C12.  Two getRecentMessages calls with the same limit and no write between
\* them return identical sequences when the created_at values of the stored
\* messages are pairwise distinct, and a getRecentMessages call leaves the
\* store unchanged.
C12_ReadsIdempotentDistinct ==
  /\ []((lastRead.again /\ DistinctTimestamps) =>
         lastRead.result = lastRead.first)
  /\ [][ReadStep => (store' = store /\ nextId' = nextId)]_vars

C12_Witness ==
  /\ lastRead.again
  /\ DistinctTimestamps
  /\ Len(lastRead.result) >= 2
  /\ lastRead.result = lastRead.first

\* C13.  The store is append-only under sends and reads: every step keeps
\* each stored message in its place with the same id, content, role and
\* created_at; no step updates or deletes a message.
C13_AppendOnly ==
  [][\A i \in DOMAIN store :
       /\ i \in DOMAIN store'
       /\ store'[i].id = store[i].id
       /\ store'[i].content = store[i].content
       /\ store'[i].role = store[i].role
       /\ store'[i].created_at = store[i].created_at]_vars

\* Both rows of a send are stored and have been read back
C13_Witness ==
  /\ lastRead.called
  /\ Len(lastRead.result) = 2
  /\ Len(store) = 2
  /\ \E c \in Calls : calls[c].pc = "done" /\ Cardinality(RowsOf(c)) = 2

\* C14 (as stated).  Every persisted message, user or assistant, has content
\* that is non-empty and at most 1000 characters long.
C14_ContentBounded ==
  \A i \in DOMAIN store :
    /\ TextLen(store[i].content) >= MinContentLength
    /\ TextLen(store[i].content) <= MaxContentLength

\* C14.  Every persisted message has non-empty content, and every persisted
\* user message has content of at most 1000 characters.
C14_NonEmptyAndUserBounded ==
  \A i \in DOMAIN store :
    /\ TextLen(store[i].content) >= MinContentLength
    /\ store[i].role = "user" =>
         TextLen(store[i].content) <= MaxContentLength

\* A user message of 1000 characters and the reply that echoes it
C14_Witness ==
  \E i, j \in DOMAIN store :
    /\ store[i].role = "user"
    /\ TextLen(store[i].content) = MaxContentLength
    /\ store[j].role = "assistant"
    /\ TextLen(store[j].content) > MaxContentLength

\* C15.  Message ids are unique across the store and follow insertion order:
\* a message inserted later has a larger id than every message inserted
\* before it, and the assistant message of a send has a larger id than the
\* user message of the same send.
C15_IdsFollowInsertion ==
  /\ \A i, j \in DOMAIN store : i < j => store[i].id < store[j].id
  /\ \A c \in Calls :
       calls[c].pc = "done" => calls[c].botResponse.id > calls[c].userMessage.id

C15_Witness ==
  \E c \in Calls :
    /\ calls[c].pc = "done"
    /\ IsRow(calls[c].userMessage)
    /\ IsRow(calls[c].botResponse)
    /\ Len(store) >= 2

\* C16.  In test mode a send makes no network call, with or without a
\* provider credential, and the assistant reply is a placeholder derived from
\* the content alone: it contains the content, and two sends of the same
\* content have the same assistant content.
C16_TestModeIsOffline ==
  env.test =>
    /\ \A c \in Calls :
         /\ calls[c].fetches = 0
         /\ calls[c].pc # "fetch"
         /\ calls[c].pc \in {"insertBot", "done"} =>
              /\ calls[c].botContent =
                   Lit("AI Response: I received your message \"")
                     \o calls[c].content
                     \o Lit("\". This is a test response.")
              /\ Includes(calls[c].botContent, calls[c].content)
         /\ calls[c].pc = "done" =>
              calls[c].botResponse.content = calls[c].botContent
    /\ \A c, d \in Calls :
         (/\ calls[c].pc = "done"
          /\ calls[d].pc = "done"
          /\ calls[c].content = calls[d].content)
           => calls[c].botResponse.content = calls[d].botResponse.content

\* A send completed in test mode with a credential configured
C16_Witness ==
  /\ env.test
  /\ env.apiKey
  /\ \E c \in Calls :
       /\ calls[c].pc = "done"
       /\ calls[c].fetches = 0
       /\ TextLen(calls[c].content) = MaxContentLength

\* C17.  A missing provider credential outside test mode is detected before
\* any network call: no request is sent to the provider, and the
\* configuration error is not masked by a reply: no assistant message, with
\* fallback, apology or any other content, is produced or persisted, and the
\* call fails with the configuration error.
C17_MissingCredentialFailsFast ==
  (~env.test /\ ~env.apiKey) =>
    \A c \in Calls :
      /\ calls[c].fetches = 0
      /\ calls[c].outcome = "none"
      /\ calls[c].pc \notin {"fetch", "insertBot", "done"}
      /\ calls[c].botContent = EmptyText
      /\ calls[c].botResponse = NoMessage
      /\ \A i \in RowsOf(c) : store[i].role = "user"
      /\ (calls[c].pc = "failed" /\ calls[c].userMessage # NoMessage) =>
           calls[c].error = "OPENAI_API_KEY environment variable is not set"

\* A send that stored its user message and then failed for the missing key
C17_Witness ==
  /\ ~env.test
  /\ ~env.apiKey
  /\ \E c \in Calls :
       /\ calls[c].pc = "failed"
       /\ calls[c].error = ConfigurationError
       /\ IsRow(calls[c].userMessage)

\* C18.  If the user-message insert of a send fails, the call fails with
\* that error, the provider is never called and no assistant-message insert
\* is attempted.
C18_UserInsertFailureStops ==
  \A c \in Calls :
    (calls[c].inserts >= 1 /\ calls[c].userMessage = NoMessage) =>
      /\ calls[c].pc = "failed"
      /\ calls[c].error = "db.insert rejected"
      /\ calls[c].fetches = 0
      /\ calls[c].outcome = "none"
      /\ calls[c].inserts = 1
      /\ calls[c].botContent = EmptyText
      /\ calls[c].botResponse = NoMessage
      /\ RowsOf(c) = {}

\* A send whose user insert was rejected, outside test mode with a key
C18_Witness ==
  /\ ~env.test
  /\ env.apiKey
  /\ \E c \in Calls :
       /\ calls[c].inserts = 1
       /\ calls[c].userMessage = NoMessage
       /\ calls[c].pc = "failed"

\* C19.  A send performs at most two store writes, exactly two when it
\* succeeds, the user insert before the assistant insert, and at most one
\* provider request; a failed provider request is not retried, it leads
\* directly to the fallback reply.
C19_TwoWritesOneRequest ==
  \A c \in Calls :
    /\ calls[c].inserts <= 2
    /\ Cardinality(RowsOf(c)) <= calls[c].inserts
    /\ calls[c].fetches <= 1
    /\ calls[c].pc = "done" =>
         /\ calls[c].inserts = 2
         /\ \E i, j \in RowsOf(c) :
              /\ i < j
              /\ store[i] = calls[c].userMessage
              /\ store[j] = calls[c].botResponse
    /\ calls[c].outcome \in {"networkError", "notOk", "badJson", "noChoices"} =>
         /\ calls[c].fetches = 1
         /\ calls[c].pc \in {"insertBot", "done", "failed"}
         /\ calls[c].botContent =
              Lit("AI Response: I received your message \"")
                \o calls[c].content
                \o Lit("\". (Fallback response due to API error)")

\* A send completed after its one provider request failed
C19_Witness ==
  \E c \in Calls :
    /\ calls[c].outcome = "networkError"
    /\ calls[c].fetches = 1
    /\ calls[c].inserts = 2
    /\ calls[c].pc = "done"

\* C20.  The history handed to the completion step is the conversation
\* loaded from the store: the previously persisted messages, all of them or
\* a most-recent window (not an empty one when there are such messages), in
\* chronological order with their roles, followed by the just-appended user
\* message as the last element.
C20_HistoryFromStore ==
  \A c \in Calls :
    calls[c].pc \in {"callModel", "fetch"} =>
      LET messages == calls[c].messages
          window == Len(messages) - 1
          own == CHOOSE i \in DOMAIN store : store[i] = calls[c].userMessage
          asMessage(row) == IF row.role = "user"
                              THEN HumanMessage(row.content)
                              ELSE AIMessage(row.content)
      IN /\ Len(messages) >= 1
         /\ messages[Len(messages)] = HumanMessage(calls[c].content)
         /\ window <= own - 1
         /\ own > 1 => window >= 1
         /\ \A j \in 1..window :
              messages[j] = asMessage(store[own - 1 - window + j])

\* C21.  Under any interleaving of N concurrent sends that all succeed, the
\* store grows by exactly 2N messages, no insert lost or duplicated; every
\* send returns its own user message paired with the reply generated from
\* its own content; each send's user message is inserted before its own
\* assistant message, though pairs of different sends may interleave.
C21_ConcurrentSendsKeepPairs ==
  (\A c \in Senders : calls[c].pc = "done") =>
    /\ Len(store) = 2 * MaxSenders
    /\ \A i, j \in DOMAIN store : i # j => store[i].id # store[j].id
    /\ \A c \in Senders :
         \E i, j \in DOMAIN store :
           /\ RowsOf(c) = {i, j}
           /\ i < j
           /\ store[i] = calls[c].userMessage
           /\ store[i].role = "user"
           /\ store[i].content = SenderContent(c)
           /\ store[j] = calls[c].botResponse
           /\ store[j].role = "assistant"
           /\ calls[c].messages[1] = HumanMessage(SenderContent(c))
           /\ store[j].content = calls[c].botContent
           /\ env.test =>
                store[j].content =
                  Lit("AI Response: I received your message \"")
                    \o SenderContent(c)
                    \o Lit("\". This is a test response.")
           /\ calls[c].outcome \in {"networkError", "notOk", "badJson", "noChoices"} =>
                store[j].content =
                  Lit("AI Response: I received your message \"")
                    \o SenderContent(c)
                    \o Lit("\". (Fallback response due to API error)")

\* Two sends completed with their pairs interleaved in the store: the second
\* send's user message lies between the first send's two messages
C21_Witness ==
  /\ \A c \in Senders : calls[c].pc = "done"
  /\ \E i, j, k \in DOMAIN store :
       /\ i < k /\ k < j
       /\ writer[i] = 1 /\ writer[j] = 1
       /\ writer[k] = 2 /\ store[k].role = "user"

\* C22.  Every send invocation eventually completes, with the message pair
\* or with an error: the provider call is bounded, so a provider that never
\* answers does not leave the invocation waiting for ever.
C22_EverySendCompletes ==
  \A c \in Calls :
    (calls[c].pc # "idle") ~> (calls[c].pc \in {"done", "failed"})

\* C23.  In the client, once a send has completed successfully, both returned
\* messages stay in the displayed list in chronological order, the user
\* message then the reply, after all older messages, whatever the moment at
\* which the history load started on mount resolves relative to the send.
\* (Stated for stored messages of pairwise distinct created_at, where the
\* order of the history is determined.)
C23_SentMessagesStayDisplayed ==
  DistinctTimestamps =>
    \A c \in client.applied :
      \E i \in DOMAIN client.messages :
        /\ i + 1 \in DOMAIN client.messages
        /\ client.messages[i] = calls[c].userMessage
        /\ client.messages[i + 1] = calls[c].botResponse
        /\ \A k \in 1..(i - 1) :
             client.messages[k].id < calls[c].userMessage.id

====
